---- MODULE Spec2Model ----
(***************************************************************************)
(* doctors_app/settings.py: the Django settings module of CureLink3.       *)
(*                                                                         *)
(* The module body is one linear pass over the process environment.  The   *)
(* model executes it section by section (pc), binding each setting in the  *)
(* module namespace ns.  A Python str is a sequence of one-character       *)
(* strings, so that split / strip / int are computed as Python computes    *)
(* them.  None (os.environ.get without a default) is the value None below. *)
(***************************************************************************)
EXTENDS Integers, Sequences, FiniteSets, TLC

VARIABLES environ,        \* os.environ of the process
          ns,             \* the module namespace: setting name -> value
          pc,             \* the section of settings.py about to execute
          environAtStart, \* history: os.environ when the module body started
          envChanges      \* number of os.environ changes made after the import

vars == <<environ, ns, pc, environAtStart, envChanges>>

----------------------------------------------------------------------------
(* Bounds of the model. *)

\* longest exhaustively enumerated list-valued variable
MaxLen == 3
\* longest exhaustively enumerated EMAIL_PORT value
MaxPortLen == 2
\* os.environ changes after the import
MaxEnvChanges == 1

----------------------------------------------------------------------------
(* Python values. *)

None == [present |-> FALSE, value |-> <<>>]
Str(s) == [present |-> TRUE, value |-> s]

EnvVars == {"SECRET_KEY", "DEBUG", "RENDER_EXTERNAL_HOSTNAME",
            "DJANGO_ALLOWED_HOSTS", "CSRF_TRUSTED_ORIGINS", "DATABASE_URL",
            "EMAIL_HOST", "EMAIL_USE_TLS", "EMAIL_PORT", "EMAIL_HOST_USER",
            "EMAIL_HOST_PASSWORD", "REDIS_URL"}

\* os.environ.get(key, default)
EnvironGet(e, key, default) ==
    IF e[key].present THEN e[key].value ELSE default

\* os.environ.get(key): None when the variable is unset
EnvironGetOpt(e, key) == e[key]

\* truth value of a str-or-None: None and "" are false
Truthy(o) == o.present /\ o.value # <<>>

\* characters for which str.isspace() holds (those of the model's alphabet)
Whitespace == {" ", "\t"}

RECURSIVE lstrip(_)
lstrip(s) ==
    IF s # <<>> /\ Head(s) \in Whitespace THEN lstrip(Tail(s)) ELSE s

RECURSIVE rstrip(_)
rstrip(s) ==
    IF s # <<>> /\ s[Len(s)] \in Whitespace
    THEN rstrip(SubSeq(s, 1, Len(s) - 1))
    ELSE s

\* str.strip()
strip(s) == rstrip(lstrip(s))

\* str.split(sep) for a one-character sep: every sep ends a piece, empty
\* pieces are kept, and "" gives [""].  cur is the piece being read.
RECURSIVE split_sep(_, _, _)
split_sep(s, sep, cur) ==
    IF s = <<>> THEN <<cur>>
    ELSE IF Head(s) = sep
         THEN <<cur>> \o split_sep(Tail(s), sep, <<>>)
         ELSE split_sep(Tail(s), sep, Append(cur, Head(s)))

\* str.split(): pieces are maximal runs of non-whitespace, none is empty
RECURSIVE split_ws(_, _)
split_ws(s, cur) ==
    LET flush == IF cur = <<>> THEN <<>> ELSE <<cur>> IN
    IF s = <<>> THEN flush
    ELSE IF Head(s) \in Whitespace
         THEN flush \o split_ws(Tail(s), <<>>)
         ELSE split_ws(Tail(s), Append(cur, Head(s)))

\* [x.strip() for x in pieces if x.strip()]
StripNonEmpty(pieces) ==
    SelectSeq([i \in 1..Len(pieces) |-> strip(pieces[i])],
              LAMBDA x : x # <<>>)

DigitValue(c) ==
    CASE c = "0" -> 0 [] c = "1" -> 1 [] c = "2" -> 2 [] c = "3" -> 3
      [] c = "4" -> 4 [] c = "5" -> 5 [] c = "6" -> 6 [] c = "7" -> 7
      [] c = "8" -> 8 [] c = "9" -> 9

Digits == {"0", "1", "2", "3", "4", "5", "6", "7", "8", "9"}

RECURSIVE DecimalValue(_, _)
DecimalValue(s, acc) ==
    IF s = <<>> THEN acc
    ELSE IF Head(s) = "_" THEN DecimalValue(Tail(s), acc)
         ELSE DecimalValue(Tail(s), 10 * acc + DigitValue(Head(s)))

\* int(s): surrounding whitespace is ignored, one sign is allowed, the rest
\* is digits with single underscores between them; anything else raises
\* ValueError (ok = FALSE).
int(s) ==
    LET t      == strip(s)
        signed == t # <<>> /\ Head(t) \in {"+", "-"}
        body   == IF signed THEN Tail(t) ELSE t
        wellformed ==
            /\ body # <<>>
            /\ \A i \in 1..Len(body) : body[i] \in Digits \cup {"_"}
            /\ body[1] # "_"
            /\ body[Len(body)] # "_"
            /\ \A i \in 1..(Len(body) - 1) :
                   ~(body[i] = "_" /\ body[i + 1] = "_")
    IN  IF wellformed
        THEN [ok |-> TRUE,
              value |-> IF signed /\ Head(t) = "-"
                        THEN 0 - DecimalValue(body, 0)
                        ELSE DecimalValue(body, 0)]
        ELSE [ok |-> FALSE, value |-> 0]

----------------------------------------------------------------------------
(* String literals of settings.py that meet environment-provided strings. *)

STR_True == <<"T", "r", "u", "e">>
STR_False == <<"F", "a", "l", "s", "e">>
STR_localhost == <<"l", "o", "c", "a", "l", "h", "o", "s", "t">>
STR_127_0_0_1 == <<"1", "2", "7", ".", "0", ".", "0", ".", "1">>
STR_https == <<"h", "t", "t", "p", "s", ":", "/", "/">>
STR_legacy_origin ==
    STR_https \o <<"c", "u", "r", "e", "l", "i", "n", "k", "3", "-", "6">>
              \o <<".", "o", "n", "r", "e", "n", "d", "e", "r">>
              \o <<".", "c", "o", "m">>
STR_dev_secret ==
    <<"d", "e", "v", "-", "s", "e", "c", "r", "e", "t">>
        \o <<"-", "c", "h", "a", "n", "g", "e", "-", "m", "e">>
STR_smtp_gmail ==
    <<"s", "m", "t", "p", ".", "g", "m", "a", "i", "l", ".", "c", "o", "m">>
STR_587 == <<"5", "8", "7">>

----------------------------------------------------------------------------
(* The resolutions of settings.py, each a function of the environment. *)

\* SECRET_KEY = os.environ.get("SECRET_KEY", "dev-secret-change-me")
ResolveSecretKey(e) == EnvironGet(e, "SECRET_KEY", STR_dev_secret)

\* mutant: the value is trimmed before it is compared
ResolveDebugTrimmed(e) == strip(EnvironGet(e, "DEBUG", STR_False)) = STR_True

\* DEBUG = os.environ.get("DEBUG", "False") == "True"
ResolveDebug(e) == EnvironGet(e, "DEBUG", STR_False) = STR_True

\* RENDER_EXTERNAL_HOSTNAME = os.environ.get("RENDER_EXTERNAL_HOSTNAME")
ResolveRenderHostname(e) == EnvironGetOpt(e, "RENDER_EXTERNAL_HOSTNAME")

\* mutant: "is not None" in place of the truth test
AppendRenderHostnameIfNotNone(hosts, render) ==
    IF render.present THEN Append(hosts, render.value) ELSE hosts

\* if RENDER_EXTERNAL_HOSTNAME: ALLOWED_HOSTS.append(RENDER_EXTERNAL_HOSTNAME)
AppendRenderHostname(hosts, render) ==
    IF Truthy(render) THEN Append(hosts, render.value) ELSE hosts

\* mutant: [h for h in EXTRA_ALLOWED.split(",") if h.strip()]
ExtraAllowedHostsUntrimmed(extra) ==
    SelectSeq(split_sep(extra, ",", <<>>), LAMBDA h : strip(h) # <<>>)

\* [h.strip() for h in EXTRA_ALLOWED.split(",") if h.strip()]
ExtraAllowedHosts(extra) == StripNonEmpty(split_sep(extra, ",", <<>>))

\* ALLOWED_HOSTS, lines 21-31
ResolveAllowedHosts(e) ==
    LET defaults == <<STR_localhost, STR_127_0_0_1>>
        render   == ResolveRenderHostname(e)
        withHost == AppendRenderHostname(defaults, render)
        extra    == EnvironGet(e, "DJANGO_ALLOWED_HOSTS", <<>>)
    IN  IF extra # <<>>
        THEN withHost \o ExtraAllowedHosts(extra)
        ELSE withHost

\* mutant: the value is always split on whitespace
ParseTrustedOriginsOnWhitespace(csrf) == StripNonEmpty(split_ws(csrf, <<>>))

\* the list parsed from _csrf_env, lines 35-38
ParseTrustedOrigins(csrf) ==
    IF \E i \in 1..Len(csrf) : csrf[i] = ","
    THEN StripNonEmpty(split_sep(csrf, ",", <<>>))
    ELSE StripNonEmpty(split_ws(csrf, <<>>))

\* if RENDER_EXTERNAL_HOSTNAME: CSRF_TRUSTED_ORIGINS.append(f"https://{...}")
AppendRenderOrigin(origins, render) ==
    IF Truthy(render) THEN Append(origins, STR_https \o render.value)
    ELSE origins

\* mutant: the legacy origin is a fallback for an empty list
AppendLegacyOriginIfEmpty(origins) ==
    IF origins = <<>> THEN Append(origins, STR_legacy_origin) ELSE origins

\* CSRF_TRUSTED_ORIGINS.append("https://curelink3-6.onrender.com")
AppendLegacyOrigin(origins) == Append(origins, STR_legacy_origin)

\* CSRF_TRUSTED_ORIGINS, lines 34-45
ResolveTrustedOrigins(e) ==
    LET csrf == EnvironGet(e, "CSRF_TRUSTED_ORIGINS", <<>>) IN
    AppendLegacyOrigin(
        AppendRenderOrigin(ParseTrustedOrigins(csrf), ResolveRenderHostname(e)))

\* CHANNEL_LAYERS, lines 92-96: a literal
ResolveChannelLayers(e) ==
    [default |-> [BACKEND |-> "channels.layers.InMemoryChannelLayer"]]

\* keepalive passed to dj_database_url.config
conn_max_age == 600

\* DATABASES, lines 127-133.  dj_database_url is a third-party package: the
\* descriptor is kept as the call settings.py makes, i.e. its arguments and
\* the variable the package reads.
ResolveDatabases(e) ==
    [default |->
        [call         |-> "dj_database_url.config",
         DATABASE_URL |-> EnvironGetOpt(e, "DATABASE_URL"),
         default      |-> [scheme |-> "sqlite",
                           path   |-> <<"BASE_DIR", "db.sqlite3">>],
         conn_max_age |-> conn_max_age,
         ssl_require  |-> FALSE]]

ResolveEmailHost(e) == EnvironGet(e, "EMAIL_HOST", STR_smtp_gmail)
ResolveEmailUseTls(e) == EnvironGet(e, "EMAIL_USE_TLS", STR_True) = STR_True
\* int(os.environ.get("EMAIL_PORT", "587")): [ok, value]
ResolveEmailPort(e) == int(EnvironGet(e, "EMAIL_PORT", STR_587))
ResolveEmailHostUser(e) == EnvironGet(e, "EMAIL_HOST_USER", <<>>)
ResolveEmailHostPassword(e) == EnvironGet(e, "EMAIL_HOST_PASSWORD", <<>>)

\* CELERY_BROKER_URL = os.environ.get("REDIS_URL", "")
ResolveCeleryBrokerUrl(e) == EnvironGet(e, "REDIS_URL", <<>>)
\* mutant: the result backend falls back to a local Redis
ResolveCeleryResultBackendLocal(e) ==
    EnvironGet(e, "REDIS_URL", <<"r", "e", "d", "i", "s", ":", "/", "/">> \o STR_localhost)

\* CELERY_RESULT_BACKEND = os.environ.get("REDIS_URL", "")
ResolveCeleryResultBackend(e) == EnvironGet(e, "REDIS_URL", <<>>)

\* CELERY_BEAT_SCHEDULE, lines 196-201: a literal
ResolveCeleryBeatSchedule(e) ==
    [name \in {"send-appointment-reminders-every-1-minute"} |->
        [task     |-> "Hospitals.tasks.send_appointment_reminders",
         schedule |-> [crontab |-> [minute |-> "*"]]]]

----------------------------------------------------------------------------
(* The environments the import is run in. *)

Alphabet == {"a", "b", ",", " "}
PortAlphabet == {"2", "5", "a", " ", "_", "-"}

StringsOver(alphabet, n) == UNION {[1..k -> alphabet] : k \in 0..n}

STR_a_com == <<"a", ".", "c", "o", "m">>
STR_b_com == <<"b", ".", "c", "o", "m">>
STR_origins_comma == STR_https \o STR_a_com \o <<",">> \o STR_https \o STR_b_com
STR_origins_space == STR_https \o STR_a_com \o <<" ">> \o STR_https \o STR_b_com

\* values of DJANGO_ALLOWED_HOSTS and CSRF_TRUSTED_ORIGINS
ListInputs ==
    StringsOver(Alphabet, MaxLen)
        \cup {STR_origins_comma, STR_origins_space,
              STR_localhost \o <<",">> \o STR_localhost,
              <<" ", "a", " ", "b", " ", ",", "\t", "b", "\t", ",", ",", "a">>,
              <<"a", "\t", "b">>}

RenderInputs ==
    {None, Str(<<>>), Str(<<"a">>), Str(<<" ">>), Str(STR_localhost)}

DebugInputs ==
    {None, Str(STR_True), Str(<<"t", "r", "u", "e">>), Str(<<"1">>),
     Str(<<"T", "R", "U", "E">>), Str(<<" ">> \o STR_True), Str(<<>>)}

PortInputs ==
    {None, Str(STR_587), Str(<<"a", "b", "c">>), Str(<<" ", "2", "5", " ">>),
     Str(<<"+", "2", "5">>), Str(<<"2", "5", ".", "0">>)}
        \cup {Str(s) : s \in StringsOver(PortAlphabet, MaxPortLen)}

STR_redis == <<"r", "e", "d", "i", "s", ":", "/", "/", "r">>
UrlInputs == {None, Str(<<>>), Str(STR_redis)}

NoEnviron == [k \in EnvVars |-> None]

With(e, key, v) == [e EXCEPT ![key] = v]

HostEnvirons ==
    {With(With(NoEnviron, "RENDER_EXTERNAL_HOSTNAME", r),
          "DJANGO_ALLOWED_HOSTS", h) :
        r \in RenderInputs, h \in {None} \cup {Str(s) : s \in ListInputs}}

OriginEnvirons ==
    {With(With(NoEnviron, "RENDER_EXTERNAL_HOSTNAME", r),
          "CSRF_TRUSTED_ORIGINS", o) :
        r \in RenderInputs, o \in {None} \cup {Str(s) : s \in ListInputs}}

ScalarEnvirons ==
    {With(With(With(With(NoEnviron, "DEBUG", d), "REDIS_URL", u),
               "DATABASE_URL", b), "EMAIL_USE_TLS", t) :
        d \in DebugInputs, u \in UrlInputs, b \in UrlInputs,
        t \in {None, Str(STR_True), Str(STR_False)}}

PortEnvirons ==
    {With(With(NoEnviron, "EMAIL_PORT", p), "REDIS_URL", u) :
        p \in PortInputs, u \in UrlInputs}

\* every variable set at once: a deployment
DeployedEnviron ==
    [k \in EnvVars |->
        CASE k = "DEBUG" -> Str(STR_False)
          [] k = "RENDER_EXTERNAL_HOSTNAME" -> Str(STR_a_com)
          [] k = "DJANGO_ALLOWED_HOSTS" -> Str(STR_b_com \o <<",">> \o STR_a_com)
          [] k = "CSRF_TRUSTED_ORIGINS" -> Str(STR_origins_space)
          [] k = "EMAIL_PORT" -> Str(<<"2", "5">>)
          [] k = "EMAIL_USE_TLS" -> Str(STR_False)
          [] OTHER -> Str(STR_redis)]

Environs ==
    HostEnvirons \cup OriginEnvirons \cup ScalarEnvirons \cup PortEnvirons
        \cup {DeployedEnviron}

\* the value a later os.environ[key] = ... assigns
ChangedValue(key) ==
    CASE key = "DEBUG" -> STR_True
      [] key = "DJANGO_ALLOWED_HOSTS" -> <<"b", ",", "b">>
      [] key = "CSRF_TRUSTED_ORIGINS" -> <<"b", " ", "b">>
      [] key = "EMAIL_PORT" -> <<"2">>
      [] OTHER -> <<"b">>

----------------------------------------------------------------------------
(* The module body, section by section.  Exec<Section>(namespace, e) is the *)
(* namespace after the section has run in environment e.                   *)

\* name = value at module level
Bind(namespace, name, value) == (name :> value) @@ namespace

\* lines 18-19
ExecSecurityAndDebug(namespace, e) ==
    Bind(Bind(namespace,
        "SECRET_KEY", ResolveSecretKey(e)),
        "DEBUG", ResolveDebug(e))

\* lines 21-31
ExecAllowedHosts(namespace, e) ==
    Bind(Bind(Bind(namespace,
        "RENDER_EXTERNAL_HOSTNAME", ResolveRenderHostname(e)),
        "EXTRA_ALLOWED", EnvironGet(e, "DJANGO_ALLOWED_HOSTS", <<>>)),
        "ALLOWED_HOSTS", ResolveAllowedHosts(e))

\* lines 34-45
ExecTrustedOrigins(namespace, e) ==
    Bind(Bind(namespace,
        "_csrf_env", EnvironGet(e, "CSRF_TRUSTED_ORIGINS", <<>>)),
        "CSRF_TRUSTED_ORIGINS", ResolveTrustedOrigins(e))

\* lines 92-96
ExecChannelLayers(namespace, e) ==
    Bind(namespace, "CHANNEL_LAYERS", ResolveChannelLayers(e))

\* lines 127-133
ExecDatabases(namespace, e) ==
    Bind(namespace, "DATABASES", ResolveDatabases(e))

\* lines 177-182: int() raises ValueError on line 180; the module body ends
\* there with the names bound so far, and the import fails
ExecEmail(namespace, e) ==
    LET port    == ResolveEmailPort(e)
        upto179 ==
            Bind(Bind(Bind(namespace,
                "EMAIL_BACKEND", "django.core.mail.backends.smtp.EmailBackend"),
                "EMAIL_HOST", ResolveEmailHost(e)),
                "EMAIL_USE_TLS", ResolveEmailUseTls(e))
    IN  IF port.ok
        THEN [raised |-> FALSE,
              ns |-> Bind(Bind(Bind(upto179,
                         "EMAIL_PORT", port.value),
                         "EMAIL_HOST_USER", ResolveEmailHostUser(e)),
                         "EMAIL_HOST_PASSWORD", ResolveEmailHostPassword(e))]
        ELSE [raised |-> TRUE, ns |-> upto179]

\* lines 187-201
ExecCelery(namespace, e) ==
    Bind(Bind(Bind(namespace,
        "CELERY_BROKER_URL", ResolveCeleryBrokerUrl(e)),
        "CELERY_RESULT_BACKEND", ResolveCeleryResultBackend(e)),
        "CELERY_BEAT_SCHEDULE", ResolveCeleryBeatSchedule(e))

\* the whole module body run in environment e: the namespace it leaves and
\* whether it raised
ImportSettings(e) ==
    LET upto133 ==
            ExecDatabases(ExecChannelLayers(ExecTrustedOrigins(
                ExecAllowedHosts(ExecSecurityAndDebug(<<>>, e), e), e), e), e)
        email == ExecEmail(upto133, e)
    IN  IF email.raised THEN email
        ELSE [raised |-> FALSE, ns |-> ExecCelery(email.ns, e)]

Bound(name) == name \in DOMAIN ns

Init ==
    /\ environ \in Environs
    /\ environAtStart = environ
    /\ ns = <<>>
    /\ pc = "security"
    /\ envChanges = 0

\* the module body does not touch os.environ
ImportStep == UNCHANGED <<environ, environAtStart, envChanges>>

\* mutant: the module body is executed again after it has completed
SecurityAndDebugReexecuted ==
    /\ pc \in {"security", "done"}
    /\ ns' = ExecSecurityAndDebug(ns, environ)
    /\ pc' = "hosts"
    /\ ImportStep

SecurityAndDebug ==
    /\ pc = "security"
    /\ ns' = ExecSecurityAndDebug(ns, environ)
    /\ pc' = "hosts"
    /\ ImportStep

AllowedHosts ==
    /\ pc = "hosts"
    /\ ns' = ExecAllowedHosts(ns, environ)
    /\ pc' = "origins"
    /\ ImportStep

TrustedOrigins ==
    /\ pc = "origins"
    /\ ns' = ExecTrustedOrigins(ns, environ)
    /\ pc' = "channels"
    /\ ImportStep

ChannelLayers ==
    /\ pc = "channels"
    /\ ns' = ExecChannelLayers(ns, environ)
    /\ pc' = "databases"
    /\ ImportStep

Databases ==
    /\ pc = "databases"
    /\ ns' = ExecDatabases(ns, environ)
    /\ pc' = "email"
    /\ ImportStep

Email ==
    /\ pc = "email"
    /\ ns' = ExecEmail(ns, environ).ns
    /\ pc' = IF ExecEmail(ns, environ).raised THEN "raised" ELSE "celery"
    /\ ImportStep

Celery ==
    /\ pc = "celery"
    /\ ns' = ExecCelery(ns, environ)
    /\ pc' = "done"
    /\ ImportStep

\* os.environ[key] = value, by the process after the import
Putenv ==
    /\ pc = "done"
    /\ envChanges < MaxEnvChanges
    /\ \E key \in EnvVars :
           /\ environ[key] # Str(ChangedValue(key))
           /\ environ' = With(environ, key, Str(ChangedValue(key)))
    /\ envChanges' = envChanges + 1
    /\ UNCHANGED <<ns, pc, environAtStart>>

\* del os.environ[key], by the process after the import
Unsetenv ==
    /\ pc = "done"
    /\ envChanges < MaxEnvChanges
    /\ \E key \in EnvVars :
           /\ environ[key].present
           /\ environ' = With(environ, key, None)
    /\ envChanges' = envChanges + 1
    /\ UNCHANGED <<ns, pc, environAtStart>>

Next ==
    \/ SecurityAndDebug
    \/ AllowedHosts
    \/ TrustedOrigins
    \/ ChannelLayers
    \/ Databases
    \/ Email
    \/ Celery
    \/ Putenv
    \/ Unsetenv

Spec == Init /\ [][Next]_vars

\* the import has ended: completed, or raised
Terminated == pc \in {"done", "raised"}

----------------------------------------------------------------------------
(* What the claims speak of, stated by position in the string rather than  *)
(* by scanning it.                                                         *)

Range(seq) == {seq[i] : i \in 1..Len(seq)}

\* the n-th smallest element of a set of numbers
NthSmallest(S, n) == CHOOSE x \in S : Cardinality({y \in S : y < x}) = n - 1

Smallest(S) == CHOOSE x \in S : \A y \in S : x <= y
Largest(S) == CHOOSE x \in S : \A y \in S : y <= x

HasComma(s) == "," \in Range(s)

\* s without its leading and trailing whitespace
Trimmed(s) ==
    LET kept == {i \in 1..Len(s) : s[i] \notin Whitespace} IN
    IF kept = {} THEN <<>> ELSE SubSeq(s, Smallest(kept), Largest(kept))

NonEmptyTrimmed(pieces) ==
    SelectSeq([k \in 1..Len(pieces) |-> Trimmed(pieces[k])],
              LAMBDA x : x # <<>>)

\* the stretches of s between consecutive commas, in order
CommaSeparated(s) ==
    LET cuts == {0, Len(s) + 1} \cup {i \in 1..Len(s) : s[i] = ","} IN
    [k \in 1..(Cardinality(cuts) - 1) |->
        SubSeq(s, NthSmallest(cuts, k) + 1, NthSmallest(cuts, k + 1) - 1)]

\* the maximal stretches of s free of whitespace, in order
WhitespaceSeparated(s) ==
    LET starts == {i \in 1..Len(s) :
                       /\ s[i] \notin Whitespace
                       /\ (i = 1 \/ s[i - 1] \in Whitespace)}
        end(i) == Smallest({j \in i..Len(s) :
                       j = Len(s) \/ s[j + 1] \in Whitespace})
    IN  [k \in 1..Cardinality(starts) |->
            SubSeq(s, NthSmallest(starts, k), end(NthSmallest(starts, k)))]

\* the non-empty trimmed tokens of a comma-separated value
CommaTokens(s) == NonEmptyTrimmed(CommaSeparated(s))

\* the value of a variable when the module body ran, "" when unset
AtStart(key) ==
    IF environAtStart[key].present THEN environAtStart[key].value ELSE <<>>

RenderGiven ==
    /\ environAtStart["RENDER_EXTERNAL_HOSTNAME"].present
    /\ environAtStart["RENDER_EXTERNAL_HOSTNAME"].value # <<>>

----------------------------------------------------------------------------
(* C1: configuration assembly never fails: in every environment the module *)
(* body runs to its end without raising, a non-integer EMAIL_PORT included. *)
(* Violated: int() raises ValueError on line 180.                          *)
C1_AssemblyNeverRaises == pc # "raised"

(* C2: ALLOWED_HOSTS starts with "localhost", "127.0.0.1" and ends with    *)
(* exactly the N non-empty tokens of DJANGO_ALLOWED_HOSTS, trimmed, in     *)
(* their order, whether or not RENDER_EXTERNAL_HOSTNAME is set; empty      *)
(* tokens are dropped and repeated tokens are kept.                        *)
C2_AllowedHostsEndWithTokens ==
    Bound("ALLOWED_HOSTS") =>
        LET hosts  == ns["ALLOWED_HOSTS"]
            tokens == CommaTokens(AtStart("DJANGO_ALLOWED_HOSTS"))
            N      == Len(tokens)
        IN  /\ Len(hosts) >= 2 + N
            /\ SubSeq(hosts, 1, 2) = <<STR_localhost, STR_127_0_0_1>>
            /\ SubSeq(hosts, Len(hosts) - N + 1, Len(hosts)) = tokens
            /\ Len(hosts) = 2 + N + (IF RenderGiven THEN 1 ELSE 0)

C2_Witness ==
    /\ pc = "done"
    /\ AtStart("DJANGO_ALLOWED_HOSTS") =
           <<" ", "a", " ", "b", " ", ",", "\t", "b", "\t", ",", ",", "a">>
    /\ AtStart("RENDER_EXTERNAL_HOSTNAME") = <<"a">>
    /\ ns["ALLOWED_HOSTS"] =
           <<STR_localhost, STR_127_0_0_1, <<"a">>,
             <<"a", " ", "b">>, <<"b">>, <<"a">>>>

(* C3: in every environment ALLOWED_HOSTS holds both static defaults and   *)
(* CSRF_TRUSTED_ORIGINS holds the legacy origin: entries from the          *)
(* environment are added to the defaults and never replace them.           *)
C3_DefaultsAlwaysPresent ==
    /\ Terminated => Bound("ALLOWED_HOSTS") /\ Bound("CSRF_TRUSTED_ORIGINS")
    /\ Bound("ALLOWED_HOSTS") =>
           {STR_localhost, STR_127_0_0_1} \subseteq Range(ns["ALLOWED_HOSTS"])
    /\ Bound("CSRF_TRUSTED_ORIGINS") =>
           STR_legacy_origin \in Range(ns["CSRF_TRUSTED_ORIGINS"])

C3_Witness ==
    /\ Terminated
    /\ environAtStart = DeployedEnviron
    /\ Len(ns["ALLOWED_HOSTS"]) = 5
    /\ Len(ns["CSRF_TRUSTED_ORIGINS"]) = 4

(* C4: the value of CSRF_TRUSTED_ORIGINS is split on commas when it holds  *)
(* a comma and on whitespace otherwise; either way the entries are trimmed *)
(* and the empty ones dropped, and the two example values both parse to    *)
(* the same two origins.  The parsed entries are the head of the list.     *)
C4_ParseModeByComma ==
    Bound("CSRF_TRUSTED_ORIGINS") =>
        LET origins == ns["CSRF_TRUSTED_ORIGINS"]
            value   == AtStart("CSRF_TRUSTED_ORIGINS")
            parsed  == IF HasComma(value)
                       THEN NonEmptyTrimmed(CommaSeparated(value))
                       ELSE NonEmptyTrimmed(WhitespaceSeparated(value))
            appended == 1 + (IF RenderGiven THEN 1 ELSE 0)
        IN  /\ Len(origins) = Len(parsed) + appended
            /\ SubSeq(origins, 1, Len(parsed)) = parsed
            /\ value \in {STR_origins_comma, STR_origins_space} =>
                   parsed = <<STR_https \o STR_a_com, STR_https \o STR_b_com>>

C4_Witness ==
    /\ pc = "done"
    /\ AtStart("CSRF_TRUSTED_ORIGINS") = STR_origins_space
    /\ ns["CSRF_TRUSTED_ORIGINS"] =
           <<STR_https \o STR_a_com, STR_https \o STR_b_com, STR_legacy_origin>>

(* C5: with RENDER_EXTERNAL_HOSTNAME a non-empty h and DJANGO_ALLOWED_HOSTS *)
(* unset, ALLOWED_HOSTS is exactly localhost, 127.0.0.1, h and             *)
(* CSRF_TRUSTED_ORIGINS holds "https://" + h; with the hostname unset or   *)
(* empty, neither list gets an entry for it.                               *)
C5_RenderHostname ==
    LET h == AtStart("RENDER_EXTERNAL_HOSTNAME") IN
    /\ Bound("ALLOWED_HOSTS") =>
        /\ (RenderGiven /\ ~environAtStart["DJANGO_ALLOWED_HOSTS"].present) =>
               ns["ALLOWED_HOSTS"] = <<STR_localhost, STR_127_0_0_1, h>>
        /\ ~RenderGiven =>
               ns["ALLOWED_HOSTS"] =
                   <<STR_localhost, STR_127_0_0_1>>
                       \o CommaTokens(AtStart("DJANGO_ALLOWED_HOSTS"))
    /\ Bound("CSRF_TRUSTED_ORIGINS") =>
        /\ RenderGiven => (STR_https \o h) \in Range(ns["CSRF_TRUSTED_ORIGINS"])
        /\ ~RenderGiven =>
               LET value == AtStart("CSRF_TRUSTED_ORIGINS") IN
               ns["CSRF_TRUSTED_ORIGINS"] =
                   Append(IF HasComma(value)
                          THEN NonEmptyTrimmed(CommaSeparated(value))
                          ELSE NonEmptyTrimmed(WhitespaceSeparated(value)),
                          STR_legacy_origin)

C5_Witness ==
    /\ pc = "done"
    /\ environAtStart["RENDER_EXTERNAL_HOSTNAME"] = Str(STR_localhost)
    /\ ~environAtStart["DJANGO_ALLOWED_HOSTS"].present
    /\ ns["ALLOWED_HOSTS"] = <<STR_localhost, STR_127_0_0_1, STR_localhost>>
    /\ (STR_https \o STR_localhost) \in Range(ns["CSRF_TRUSTED_ORIGINS"])

(* C6: CELERY_BROKER_URL and CELERY_RESULT_BACKEND are equal: both "" when *)
(* REDIS_URL is unset, both its value when it is set; the schedule table   *)
(* holds the single entry send-appointment-reminders-every-1-minute, bound *)
(* to Hospitals.tasks.send_appointment_reminders, either way.              *)
C6_CeleryUrlsEqual ==
    /\ Bound("CELERY_BROKER_URL") <=> Bound("CELERY_RESULT_BACKEND")
    /\ pc = "done" => Bound("CELERY_BROKER_URL")
    /\ Bound("CELERY_BROKER_URL") =>
        /\ ns["CELERY_BROKER_URL"] = ns["CELERY_RESULT_BACKEND"]
        /\ ns["CELERY_BROKER_URL"] =
               (IF environAtStart["REDIS_URL"].present
                THEN environAtStart["REDIS_URL"].value
                ELSE <<>>)
        /\ Bound("CELERY_BEAT_SCHEDULE")
        /\ DOMAIN ns["CELERY_BEAT_SCHEDULE"] =
               {"send-appointment-reminders-every-1-minute"}
        /\ ns["CELERY_BEAT_SCHEDULE"]
               ["send-appointment-reminders-every-1-minute"].task =
               "Hospitals.tasks.send_appointment_reminders"

C6_Witness ==
    /\ pc = "done"
    /\ ~environAtStart["REDIS_URL"].present
    /\ ns["CELERY_BROKER_URL"] = <<>>
    /\ ns["CELERY_RESULT_BACKEND"] = <<>>

(* C7: once the module body has run to its end, no step changes a setting: *)
(* whatever is set, unset or altered in os.environ afterwards, the         *)
(* namespace stays as it was computed.                                      *)
C7_SnapshotNeverChanges == [][pc = "done" => ns' = ns]_vars

C7_Witness ==
    /\ pc = "done"
    /\ envChanges > 0
    /\ environ["DEBUG"] = Str(STR_True)
    /\ ~environAtStart["DEBUG"].present
    /\ ns["DEBUG"] = FALSE

(* C9: DEBUG is true exactly when the DEBUG variable is the string "True"; *)
(* "true", "1", "TRUE", " True", "" and the unset variable give false.     *)
C9_DebugOnlyForTrue ==
    Bound("DEBUG") =>
        /\ ns["DEBUG"] = (environAtStart["DEBUG"] = Str(STR_True))
        /\ environAtStart["DEBUG"] \in
               {None, Str(<<"t", "r", "u", "e">>), Str(<<"1">>),
                Str(<<"T", "R", "U", "E">>), Str(<<" ", "T", "r", "u", "e">>),
                Str(<<>>)} => ns["DEBUG"] = FALSE

C9_Witness ==
    /\ pc = "done"
    /\ environAtStart["DEBUG"] = Str(<<" ", "T", "r", "u", "e">>)
    /\ ns["DEBUG"] = FALSE

\* the environment variables a setting is resolved from
Reads(name) ==
    CASE name = "SECRET_KEY" -> {"SECRET_KEY"}
      [] name = "DEBUG" -> {"DEBUG"}
      [] name = "RENDER_EXTERNAL_HOSTNAME" -> {"RENDER_EXTERNAL_HOSTNAME"}
      [] name = "EXTRA_ALLOWED" -> {"DJANGO_ALLOWED_HOSTS"}
      [] name = "ALLOWED_HOSTS" ->
             {"RENDER_EXTERNAL_HOSTNAME", "DJANGO_ALLOWED_HOSTS"}
      [] name = "_csrf_env" -> {"CSRF_TRUSTED_ORIGINS"}
      [] name = "CSRF_TRUSTED_ORIGINS" ->
             {"RENDER_EXTERNAL_HOSTNAME", "CSRF_TRUSTED_ORIGINS"}
      [] name = "DATABASES" -> {"DATABASE_URL"}
      [] name = "EMAIL_HOST" -> {"EMAIL_HOST"}
      [] name = "EMAIL_USE_TLS" -> {"EMAIL_USE_TLS"}
      [] name = "EMAIL_PORT" -> {"EMAIL_PORT"}
      [] name = "EMAIL_HOST_USER" -> {"EMAIL_HOST_USER"}
      [] name = "EMAIL_HOST_PASSWORD" -> {"EMAIL_HOST_PASSWORD"}
      [] name = "CELERY_BROKER_URL" -> {"REDIS_URL"}
      [] name = "CELERY_RESULT_BACKEND" -> {"REDIS_URL"}
      [] OTHER -> {}

\* the environments that differ from the one of this run in one variable
OneVariableAway ==
    UNION {{With(environAtStart, key, v) :
                v \in {None, Str(ChangedValue(key)), Str(<<"a", "b", "c">>)}} :
           key \in EnvVars}

SameOn(e1, e2, keys) == \A key \in keys : e1[key] = e2[key]

(* C10: each setting depends only on the variables it reads: a run in an   *)
(* environment that agrees with this one on those variables produces the   *)
(* same value for the setting, whatever the other variables are.           *)
(* Violated: with a non-integer EMAIL_PORT the body ends on line 180 and   *)
(* the settings after it are not produced at all.                          *)
C10_ResolutionIndependent ==
    Terminated =>
        \A e2 \in OneVariableAway :
            LET other == ImportSettings(e2).ns IN
            \A name \in DOMAIN ns \cup DOMAIN other :
                SameOn(environAtStart, e2, Reads(name)) =>
                    /\ name \in DOMAIN ns
                    /\ name \in DOMAIN other
                    /\ ns[name] = other[name]

\* what does hold: a setting bound in both runs has the same value in both,
\* the channel layer is the in-process one and the allowlist is bound in
\* every run
ResolutionIndependentWhereBound ==
    /\ Terminated =>
        /\ Bound("CHANNEL_LAYERS") /\ Bound("ALLOWED_HOSTS")
        /\ ns["CHANNEL_LAYERS"].default.BACKEND =
               "channels.layers.InMemoryChannelLayer"
        /\ \A e2 \in OneVariableAway :
               LET other == ImportSettings(e2).ns IN
               \A name \in DOMAIN ns \cap DOMAIN other :
                   SameOn(environAtStart, e2, Reads(name)) =>
                       ns[name] = other[name]

====
